---- MODULE Spec2Model ----
\* TechBookForge: the book generation pipeline (BookGeneratorService), its
\* progress ledger (DatabaseStorage.*ProgressStep), the repository analysis
\* (GitHubService.analyzeRepositoryState) and the retry wrappers of the
\* Claude and DeepSeek services.
\*
\* One job (book) is modelled.  The job is run by one task at a time (spec
\* section 5: a job is processed by a single sequential task); the process may
\* die at any await and remote calls may fail, both within the fault budget.
EXTENDS Integers, Sequences, FiniteSets, TLC

\* ---------------------------------------------------------------- bounds
chapterCount == 2
sectionsPerChapter == 2
MaxResumes == 2
MaxFaults == 2
MaxPauses == 2

BookCount == 2
MaxRows == 3
MaxTruncates == 1

\* ------------------------------------------------------ program constants
maxRetries == 3
baseDelay == 1000

M == chapterCount * sectionsPerChapter
Sections == 1 .. M

chapterNumber(i) == ((i - 1) \div sectionsPerChapter) + 1
sectionNumber(i) == ((i - 1) % sectionsPerChapter) + 1

\* ------------------------------------------------------------ the artifacts
\* A file name is <<kind, chapter, section>>; the three single files carry 0, 0.
\* The per-variant drafts and the variants README the generator writes match
\* none of the patterns the analysis counts and are left out.
draftFileName(i) == <<"draft", chapterNumber(i), sectionNumber(i)>>
summaryFileName(i) == <<"summary", chapterNumber(i), sectionNumber(i)>>
mainOutline == <<"main_outline", 0, 0>>
contentDraft == <<"content_draft", 0, 0>>
frontMatter == <<"front_matter", 0, 0>>

FileNames ==
  {mainOutline, contentDraft, frontMatter}
    \cup {draftFileName(i) : i \in Sections}
    \cup {summaryFileName(i) : i \in Sections}

\* The content of a file: NoFile when the file is absent, EmptyText for a file
\* with empty text, and otherwise the number of the run that wrote it (the
\* fresh run is run 1, the n-th resume is run n + 1).
NoFile == 0 - 1
EmptyText == 0
Present(fs, f) == fs[f] # NoFile
\* getFile(...)?.content as a condition: a present file with non-empty text.
HasContent(fs, f) == fs[f] > EmptyText
fileNames(fs) == {f \in FileNames : Present(fs, f)}

\* ------------------------------------------------------- the progress ledger
stepOrder ==
  << "input_validation", "database_storage", "github_repository", "book_outline",
     "chapter_outlines", "content_generation", "content_compilation",
     "front_matter_generation" >>

indexOf(step) ==
  IF \E k \in DOMAIN stepOrder : stepOrder[k] = step
    THEN CHOOSE k \in DOMAIN stepOrder : stepOrder[k] = step
    ELSE 0

ProgressRecord(step, st, synced) == [step |-> step, status |-> st, synced |-> synced]

startProgressStep(l, step, synced) == Append(l, ProgressRecord(step, "started", synced))

completeProgressStep(l, step) ==
  [k \in DOMAIN l |-> IF l[k].step = step THEN [l[k] EXCEPT !.status = "completed"] ELSE l[k]]

failProgressStep(l, step) ==
  [k \in DOMAIN l |-> IF l[k].step = step THEN [l[k] EXCEPT !.status = "failed"] ELSE l[k]]

\* The latest record by start time; records are kept in insertion order.
NoRecord == ProgressRecord("none", "none", FALSE)
getCurrentProgressStep(l) == IF Len(l) = 0 THEN NoRecord ELSE l[Len(l)]

\* A truncation that deletes nothing.
cleanupKeepsEverything(l, targetStep) == l

\* A truncation that deletes the records of targetStep as well.
cleanupFromTargetStep(l, targetStep) ==
  SelectSeq(l, LAMBDA r : indexOf(r.step) < indexOf(targetStep))

\* The records of the steps after targetStep are deleted; "completed" returns
\* at once and a step that is not in stepOrder throws, both deleting nothing.
cleanupProgressHistoryAfterStep(l, targetStep) ==
  IF targetStep = "completed" \/ indexOf(targetStep) = 0
    THEN l
    ELSE SelectSeq(l, LAMBDA r : indexOf(r.step) <= indexOf(targetStep))

\* ------------------------------------------------------ repository analysis
sectionDrafts(fs) == Cardinality({f \in fileNames(fs) : f[1] = "draft"})
sectionSummaries(fs) == Cardinality({f \in fileNames(fs) : f[1] = "summary"})

analyzeRepositoryState(fs) ==
  LET hasMainOutline == mainOutline \in fileNames(fs)
      hasContentDraft == contentDraft \in fileNames(fs)
      hasFrontMatter == frontMatter \in fileNames(fs)
  IN  IF ~hasMainOutline THEN
        [step |-> "book_outline", nextFile |-> mainOutline]
      ELSE IF sectionDrafts(fs) = 0 THEN
        [step |-> "content_generation", nextFile |-> <<"draft", 1, 1>>]
      ELSE IF sectionSummaries(fs) < sectionDrafts(fs) THEN
        [step |-> "content_generation",
         nextFile |-> <<"summary", (sectionSummaries(fs) \div 2) + 1,
                                   (sectionSummaries(fs) % 2) + 1>>]
      ELSE IF ~hasContentDraft THEN
        [step |-> "content_compilation", nextFile |-> contentDraft]
      ELSE IF ~hasFrontMatter THEN
        [step |-> "front_matter_generation", nextFile |-> frontMatter]
      ELSE
        [step |-> "completed", nextFile |-> <<"", 0, 0>>]

\* ------------------------------------------------------------------- state
VARIABLES
  status,        \* books.status; "none" before the book row exists
  ledger,        \* book_progress_history of the job, in insertion order
  repoStored,    \* a github_repos row exists for the job
  files,         \* the repository: file name -> content
  dbSections,    \* the sections rows of the job (ordinal positions)
  pc,            \* where the job's task is; "idle" when no task runs
  mode,          \* "start": processBookGeneration; "resume": ...FromStep
  resumeStep,    \* githubState.step captured by the resume continuation
  idx,           \* position of the section loop of generateSectionContent
  allPreviousSummaries, \* the accumulated summaries, <<position, content>>
  run,           \* number of the current (or last) run
  faults,        \* failures and process deaths so far
  lastResume,    \* what the last resume call found and answered
  resumeLog,     \* what the resume calls that ran the analysis found
  genCalls,      \* generation calls of the current run, in order
  writes,        \* file name -> number of writes in the current run
  service,       \* the service whose generateContent is running, or "none"
  attempt,       \* generateContent's loop variable
  callState,     \* "idle", "running", "returned" or "failed"
  responses,     \* what the remote end answered, attempt by attempt
  delays,        \* the delays slept between the attempts
  secondTask,    \* where a task launched while another one runs was entered
  lastPause,     \* what the last pause request found and did
  sectionDetails, \* section_details: section -> the draft its rows were extracted from
  lastNames,     \* the last result of getExistingNamesForAvoidance
  history,       \* book_progress_history of several books: book -> its rows
  lastTruncate,  \* the last call of cleanupProgressHistoryAfterStep on history
  title,         \* the title generateRepoName is called with, one character each
  timestamp,     \* the timestamp it is called with, one digit each
  repoName,      \* what generateRepoName returned; <<>> before the call
  chapterRows,   \* the chapters rows of the job: row id -> chapterNumber
  sectionRows,   \* the sections rows: row id -> <<chapterId, sectionNumber>>
  entryTask,     \* task -> where it is in createChapterAndSectionEntries
  mentions,      \* section_details by row: section id -> its rows, in insertion order
  lastExtract,   \* the last call of extractSectionDetails and what it returned
  lastLists      \* the last call of getExistingNamesForAvoidance and its result

pipelineVars ==
  << status, ledger, repoStored, files, dbSections, pc, mode, resumeStep, idx,
     allPreviousSummaries, run, faults, lastResume, resumeLog, genCalls, writes >>

retryVars == << service, attempt, callState, responses, delays >>

taskVars == << secondTask, lastPause >>

detailVars == << sectionDetails, lastNames >>

tableVars == << history, lastTruncate >>
nameVars == << title, timestamp, repoName >>
entryVars == << chapterRows, sectionRows, entryTask >>
mentionVars == << mentions, lastExtract, lastLists >>
auxVars == << nameVars, entryVars, mentionVars >>

vars == << pipelineVars, retryVars, taskVars, detailVars, tableVars, auxVars >>

NoResume ==
  [n |-> 0, trueStep |-> "none", ledgerStep |-> "none", resumedFromStep |-> "none",
   readOk |-> TRUE, repaired |-> FALSE, files |-> [f \in FileNames |-> NoFile],
   statusBefore |-> "none", prevFrom |-> "none", partial |-> FALSE,
   prevPartial |-> FALSE]

NoCalls == <<>>
NoPause ==
  [n |-> 0, answer |-> "none", logs |-> 0, ledgerLen |-> 0, resumes |-> 0,
   running |-> FALSE]
NoWrites == [f \in FileNames |-> 0]

\* The tasks of one job that may run createChapterAndSectionEntries, and a
\* task that has not entered it.
TaskCount == 2
Tasks == 1 .. TaskCount
NotEntered == [pc |-> "none", i |-> 0, j |-> 0, chapter |-> 0]

\* The sections whose rows of section_details are followed one by one, the
\* number of extractions and of reads of the names, and the state before the
\* first of them.
SectionCount == 3
MaxExtracts == 2
MaxListReads == 1
SectionIds == 1 .. SectionCount
NoExtract ==
  [n |-> 0, sectionId |-> 0, outcome |-> "none", returned |-> <<>>, before |-> <<>>]
NoLists ==
  [n |-> 0, bookId |-> 0, readOk |-> TRUE, people |-> <<>>, jobTitles |-> <<>>,
   places |-> <<>>]

\* No section has details, and the names to avoid are none.
NoDetails == [i \in Sections |-> NoFile]
NoNames == [people |-> {}, jobTitles |-> {}, places |-> {}]

\* The books of the table, and the state before any truncation was asked.
Books == 1 .. BookCount
NoTruncate ==
  [n |-> 0, bookId |-> 0, targetStep |-> "none", committed |-> FALSE,
   deleted |-> 0, kept |-> 0]

Init ==
  /\ status = "none"
  /\ ledger = <<>>
  /\ repoStored = FALSE
  /\ files = [f \in FileNames |-> NoFile]
  /\ dbSections = {}
  /\ pc = "idle"
  /\ mode = "start"
  /\ resumeStep = "none"
  /\ idx = 0
  /\ allPreviousSummaries = <<>>
  /\ run = 0
  /\ faults = 0
  /\ lastResume = NoResume
  /\ resumeLog = {}
  /\ genCalls = NoCalls
  /\ writes = NoWrites
  /\ service = "none"
  /\ attempt = 0
  /\ callState = "idle"
  /\ responses = <<>>
  /\ delays = <<>>
  /\ secondTask = "idle"
  /\ lastPause = NoPause
  /\ sectionDetails = NoDetails
  /\ lastNames = NoNames
  /\ history = [b \in Books |-> <<>>]
  /\ lastTruncate = NoTruncate
  /\ title = <<>>
  /\ timestamp = <<>>
  /\ repoName = <<>>
  /\ chapterRows = <<>>
  /\ sectionRows = <<>>
  /\ entryTask = [t \in Tasks |-> NotEntered]
  /\ mentions = [s \in SectionIds |-> <<>>]
  /\ lastExtract = NoExtract
  /\ lastLists = NoLists

\* A book row exists: the job was started and not deleted.
bookExists == status \notin {"none", "deleted"}

\* ------------------------------------------------------ the section details
\* The rows of section_details of one section are those extracted from one
\* draft of it; a row is named after the section and the draft it came from
\* and carries a person, a job role and a city.

\* A store that inserts the new rows and deletes none.
insertSectionDetails(sd, i, draft) == [sd EXCEPT ![i] = @ \o draft]

\* storeSectionDetails: the section's rows are deleted and the new ones inserted.
storeSectionDetails(sd, i, draft) == [sd EXCEPT ![i] = draft]

\* getBookSectionDetails: the rows of all sections of the book.
getBookSectionDetails(sd) == {<<i, sd[i]>> : i \in {j \in Sections : sd[j] # NoFile}}

\* getExistingNamesForAvoidance: the distinct names of each kind; when the
\* rows cannot be read the three lists are empty.
getExistingNamesForAvoidance(sd, readOk) ==
  IF readOk
    THEN [people |-> {<<"person", d[1], d[2]>> : d \in getBookSectionDetails(sd)},
          jobTitles |-> {<<"role", d[1], d[2]>> : d \in getBookSectionDetails(sd)},
          places |-> {<<"city", d[1], d[2]>> : d \in getBookSectionDetails(sd)}]
    ELSE NoNames

\* A remote call or a write may fail while the fault budget lasts.
Outcomes == IF faults < MaxFaults THEN {"ok", "throw"} ELSE {"ok"}
Fault(o) == IF o = "ok" THEN faults ELSE faults + 1

\* --------------------------------------------------------- the task's steps
\* An exception that leaves the running task and that no catch records.
TaskThrowsQuietly(l) ==
  /\ status' = status
  /\ ledger' = l
  /\ pc' = "idle"

\* An exception that leaves the running task.  processBookGeneration catches
\* it, sets the status and does not rethrow; processBookGenerationFromStep
\* sets the status and rethrows to resumeGeneration's catch, which fails the
\* records of the step the resume started from.  l is the ledger so far.
TaskThrows(l) ==
  /\ status' = "error"
  /\ ledger' = IF mode = "resume" THEN failProgressStep(l, resumeStep) ELSE l
  /\ pc' = "idle"

GenCall(kind, i, given) ==
  [kind |-> kind, sec |-> i, given |-> given,
   present |-> Present(files, IF kind = "draft" THEN draftFileName(i) ELSE summaryFileName(i))]

createFile(fs, f, content) == [fs EXCEPT ![f] = content]
Wrote(f) == [writes EXCEPT ![f] = @ + 1]

\* startGeneration: the book row, the first two steps of the ledger, status
\* "processing", and the launch of processBookGeneration.
startGeneration ==
  /\ status = "none"
  /\ status' = "processing"
  /\ ledger' =
       LET l1 == startProgressStep(ledger, "input_validation", FALSE)
           l2 == completeProgressStep(l1, "input_validation")
           l3 == startProgressStep(l2, "database_storage", FALSE)
       IN  completeProgressStep(l3, "database_storage")
  /\ pc' = "repo"
  /\ mode' = "start"
  /\ run' = 1
  /\ UNCHANGED << repoStored, files, dbSections, resumeStep, idx,
                  allPreviousSummaries, faults, lastResume, resumeLog, genCalls, writes >>
  /\ UNCHANGED << retryVars, taskVars, detailVars, tableVars, auxVars >>

\* processBookGeneration, step 2: create and record the repository.
createRepositoryStep ==
  /\ pc = "repo"
  /\ bookExists
  /\ \E o \in Outcomes :
       LET l1 == startProgressStep(ledger, "github_repository", FALSE)
       IN  /\ faults' = Fault(o)
           /\ IF o = "ok"
                THEN /\ repoStored' = TRUE
                     /\ ledger' = completeProgressStep(l1, "github_repository")
                     /\ pc' = "outline"
                     /\ UNCHANGED status
                ELSE /\ TaskThrows(l1)
                     /\ UNCHANGED repoStored
  /\ UNCHANGED << files, dbSections, mode, resumeStep, idx, allPreviousSummaries,
                  run, lastResume, resumeLog, genCalls, writes >>
  /\ UNCHANGED << retryVars, taskVars, detailVars, tableVars, auxVars >>

\* Step 3 of processBookGeneration and continueFromBookOutline: generate the
\* outline and write main_outline.md.
bookOutlineStep ==
  /\ pc = "outline"
  /\ bookExists
  /\ \E o \in Outcomes :
       LET l1 == startProgressStep(ledger, "book_outline", FALSE)
       IN  /\ faults' = Fault(o)
           /\ IF o = "ok"
                THEN /\ files' = createFile(files, mainOutline, run)
                     /\ writes' = Wrote(mainOutline)
                     /\ ledger' = completeProgressStep(l1, "book_outline")
                     /\ pc' = "cg_start"
                     /\ UNCHANGED status
                ELSE /\ TaskThrows(l1)
                     /\ UNCHANGED << files, writes >>
  /\ UNCHANGED << repoStored, dbSections, mode, resumeStep, idx,
                  allPreviousSummaries, run, lastResume, resumeLog, genCalls >>
  /\ UNCHANGED << retryVars, taskVars, detailVars, tableVars, auxVars >>

\* generateSectionContent, first loop: the summaries found in the repository,
\* in section order; a summary whose read throws, or whose text is empty, is
\* passed over.
loadExistingSummaries(fs, unread) ==
  SelectSeq([i \in Sections |-> <<i, fs[summaryFileName(i)]>>],
            LAMBDA e : e[2] > EmptyText /\ e[1] \notin unread)

\* Step 4 up to the section loop: the ledger record, (on resume) the read of
\* the outline, createChapterAndSectionEntries, and the loading of summaries.
contentGenerationStart ==
  /\ pc = "cg_start"
  /\ bookExists
  /\ LET l1 == startProgressStep(ledger, "content_generation", FALSE)
         readable == {i \in Sections : HasContent(files, summaryFileName(i))}
     IN  \/ /\ mode = "resume"
            /\ faults < MaxFaults
            /\ faults' = faults + 1
            /\ TaskThrows(l1)
            /\ UNCHANGED << dbSections, idx, allPreviousSummaries >>
         \/ \E unread \in SUBSET readable :
              /\ faults + Cardinality(unread) <= MaxFaults
              /\ faults' = faults + Cardinality(unread)
              /\ ledger' = l1
              /\ dbSections' = Sections
              /\ allPreviousSummaries' = loadExistingSummaries(files, unread)
              /\ idx' = 1
              /\ pc' = "draft"
              /\ UNCHANGED status
  /\ UNCHANGED << repoStored, files, mode, resumeStep, run, lastResume, resumeLog, genCalls,
                  writes >>
  /\ UNCHANGED << retryVars, taskVars, detailVars, tableVars, auxVars >>

\* A section loop that ends after the section at hand.
loopEndsAfter(i) == "cg_end"

\* The position after section i of the section loop.
NextSection(i) == IF i + 1 > M THEN "cg_end" ELSE "draft"

\* A section loop whose catch covers the draft only: after a failed draft the
\* summary of the same section is generated.
summaryAfterFailedDraft(i) == <<"summary", i>>

\* The catch of the section loop covers the whole pass: after a failed draft
\* the loop goes on with the next section, <<position of the task, index>>.
afterFailedDraft(i) == <<NextSection(i), i + 1>>

\* What may happen to one section beyond plain success: the read of the
\* existing file throws, the generation call throws, the call returns empty
\* text (DeepSeek only), or the write throws.
DraftEvents ==
  IF faults < MaxFaults
    THEN {"ok", "readThrows", "genThrows", "writeThrows", "empty", "namesFail",
          "extractFails"}
    ELSE {"ok"}
SummaryEvents ==
  IF faults < MaxFaults THEN {"ok", "genThrows", "writeThrows", "empty"} ELSE {"ok"}

\* generateSectionContent, one pass of the section loop up to the write of the
\* draft: an existing draft is skipped (and its summary generated when it is
\* not among the loaded ones); otherwise the draft is generated with the
\* accumulated summaries and written.
sectionDraftStep ==
  /\ pc = "draft"
  /\ bookExists
  /\ \E e \in DraftEvents :
       LET i == idx
           existingDraft == HasContent(files, draftFileName(i)) /\ e # "readThrows"
           existingSummaryIndex ==
             \E k \in DOMAIN allPreviousSummaries : allPreviousSummaries[k][1] = i
           text == IF e = "empty" THEN EmptyText ELSE run
       IN  /\ faults' = Fault(e)
           /\ e = "readThrows" => HasContent(files, draftFileName(i))
           /\ e \in {"namesFail", "extractFails"} => ~existingDraft
           /\ IF existingDraft THEN
                IF existingSummaryIndex THEN
                  /\ e = "ok"
                  /\ pc' = NextSection(i)
                  /\ idx' = i + 1
                  /\ UNCHANGED << files, allPreviousSummaries, genCalls, writes >>
                  /\ UNCHANGED detailVars
                ELSE
                  /\ genCalls' = Append(genCalls, GenCall("summary", i, <<>>))
                  /\ IF e \in {"ok", "empty"}
                       THEN /\ files' = createFile(files, summaryFileName(i), text)
                            /\ writes' = Wrote(summaryFileName(i))
                            /\ allPreviousSummaries' =
                                 Append(allPreviousSummaries, <<i, text>>)
                       ELSE UNCHANGED << files, allPreviousSummaries, writes >>
                  /\ pc' = NextSection(i)
                  /\ idx' = i + 1
                  /\ UNCHANGED detailVars
              ELSE
                /\ e # "empty"
                /\ lastNames' = getExistingNamesForAvoidance(sectionDetails, e # "namesFail")
                /\ genCalls' = Append(genCalls, GenCall("draft", i, allPreviousSummaries))
                /\ IF e \in {"ok", "readThrows", "namesFail", "extractFails"}
                     THEN /\ files' = createFile(files, draftFileName(i), run)
                          /\ writes' = Wrote(draftFileName(i))
                          /\ sectionDetails' =
                               IF e = "extractFails"
                                 THEN sectionDetails
                                 ELSE storeSectionDetails(sectionDetails, i, run)
                          /\ pc' = "summary"
                          /\ idx' = i
                     ELSE /\ pc' = afterFailedDraft(i)[1]
                          /\ idx' = afterFailedDraft(i)[2]
                          /\ UNCHANGED << files, writes, sectionDetails >>
                /\ UNCHANGED allPreviousSummaries
  /\ UNCHANGED << status, ledger, repoStored, dbSections, mode, resumeStep, run,
                  lastResume, resumeLog >>
  /\ UNCHANGED << retryVars, taskVars, tableVars, auxVars >>

\* generateSectionContent, the rest of the pass: the summary of the draft just
\* written is generated, written and appended to the accumulated summaries; a
\* failure is logged and the loop goes on.
sectionSummaryStep ==
  /\ pc = "summary"
  /\ bookExists
  /\ \E e \in SummaryEvents :
       LET i == idx
           text == IF e = "empty" THEN EmptyText ELSE run
       IN  /\ faults' = Fault(e)
           /\ genCalls' = Append(genCalls, GenCall("summary", i, <<>>))
           /\ IF e \in {"ok", "empty"}
                THEN /\ files' = createFile(files, summaryFileName(i), text)
                     /\ writes' = Wrote(summaryFileName(i))
                     /\ allPreviousSummaries' = Append(allPreviousSummaries, <<i, text>>)
                ELSE UNCHANGED << files, allPreviousSummaries, writes >>
           /\ pc' = NextSection(i)
           /\ idx' = i + 1
  /\ UNCHANGED << status, ledger, repoStored, dbSections, mode, resumeStep, run,
                  lastResume, resumeLog >>
  /\ UNCHANGED << retryVars, taskVars, detailVars, tableVars, auxVars >>

\* The end of step 4: the content_generation records are completed.
contentGenerationEnd ==
  /\ pc = "cg_end"
  /\ bookExists
  /\ ledger' = completeProgressStep(ledger, "content_generation")
  /\ pc' = "compile"
  /\ UNCHANGED << status, repoStored, files, dbSections, mode, resumeStep, idx,
                  allPreviousSummaries, run, faults, lastResume, resumeLog, genCalls, writes >>
  /\ UNCHANGED << retryVars, taskVars, detailVars, tableVars, auxVars >>

\* Step 5 and continueFromContentCompilation: compileBookContent puts a
\* placeholder for a draft it cannot fetch and writes content_draft.md.
contentCompilationStep ==
  /\ pc = "compile"
  /\ bookExists
  /\ \E o \in Outcomes :
       LET l1 == startProgressStep(ledger, "content_compilation", FALSE)
       IN  /\ faults' = Fault(o)
           /\ IF o = "ok"
                THEN /\ files' = createFile(files, contentDraft, run)
                     /\ writes' = Wrote(contentDraft)
                     /\ ledger' = completeProgressStep(l1, "content_compilation")
                     /\ pc' = "front"
                     /\ UNCHANGED status
                ELSE /\ TaskThrows(l1)
                     /\ UNCHANGED << files, writes >>
  /\ UNCHANGED << repoStored, dbSections, mode, resumeStep, idx,
                  allPreviousSummaries, run, lastResume, resumeLog, genCalls >>
  /\ UNCHANGED << retryVars, taskVars, detailVars, tableVars, auxVars >>

\* Step 6 and continueFromFrontMatter: generateFrontMatter needs the outline,
\* writes front_matter.md, and the job is completed.
frontMatterStep ==
  /\ pc = "front"
  /\ bookExists
  /\ \E o \in Outcomes :
       LET l1 == startProgressStep(ledger, "front_matter_generation", FALSE)
       IN  IF o = "ok" /\ Present(files, mainOutline)
             THEN /\ files' = createFile(files, frontMatter, run)
                  /\ writes' = Wrote(frontMatter)
                  /\ ledger' = completeProgressStep(l1, "front_matter_generation")
                  /\ status' = "completed"
                  /\ pc' = "idle"
                  /\ UNCHANGED faults
             ELSE /\ faults' = Fault(o)
                  /\ TaskThrows(l1)
                  /\ UNCHANGED << files, writes >>
  /\ UNCHANGED << repoStored, dbSections, mode, resumeStep, idx,
                  allPreviousSummaries, run, lastResume, resumeLog, genCalls >>
  /\ UNCHANGED << retryVars, taskVars, detailVars, tableVars, auxVars >>

\* ------------------------------------------------------------------ resume
\* A switch without the case of the last step.
dispatchWithoutFrontMatter(step) ==
  step \in {"github_repository", "book_outline", "content_generation",
            "content_compilation"}

\* The cases of processBookGenerationFromStep's switch; every other step
\* reaches the default case, which throws `Unknown step`.
dispatchAccepts(step) ==
  step \in {"github_repository", "book_outline", "content_generation",
            "content_compilation", "front_matter_generation"}

\* processBookGenerationFromStep's switch: where the task enters ("unknown"
\* stands for the default case).  resumeGeneration never hands it
\* github_repository, whose case goes on with the outline as well.
entryOf(step) ==
  IF ~dispatchAccepts(step) THEN "unknown"
  ELSE CASE step = "book_outline" -> "outline"
         [] step = "content_generation" -> "cg_start"
         [] step = "content_compilation" -> "compile"
         [] step = "front_matter_generation" -> "front"
         [] OTHER -> "outline"

\* The fan-out step is partly done: the outline and some, not all, of the
\* drafts and summaries are there, and nothing of a later step.
partialFanOut(fs) ==
  /\ Present(fs, mainOutline)
  /\ sectionDrafts(fs) + sectionSummaries(fs) < 2 * M
  /\ ~Present(fs, contentDraft)
  /\ ~Present(fs, frontMatter)

ResumeAnswer(n, trueStep, cur, from, readOk, repaired) ==
  [n |-> n, trueStep |-> trueStep, ledgerStep |-> cur, resumedFromStep |-> from,
   readOk |-> readOk, repaired |-> repaired, files |-> files,
   statusBefore |-> status, prevFrom |-> lastResume.resumedFromStep,
   partial |-> partialFanOut(files), prevPartial |-> lastResume.partial]

\* One line of resumeLog: the names of the files the analysis saw, the latest
\* ledger record at that time, and the answer.
Logged(a) ==
  [names |-> fileNames(a.files), ledgerStep |-> a.ledgerStep, readOk |-> a.readOk,
   trueStep |-> a.trueStep, resumedFromStep |-> a.resumedFromStep]

\* A route that also accepts a job that is generating.
routeAcceptsGenerating(st) == st # "completed"

\* A route that also accepts a job that is already completed.
routeAcceptsCompleted(st) == st # "generating"

\* The checks of the resume route on the book's status.
routeAccepts(st) == st \notin {"completed", "generating"}

\* A resume that trusts the ledger whenever the ledger names a step.
resumeFromLedger(githubStep, currentStep) ==
  IF currentStep \in {"book_outline", "content_generation", "content_compilation",
                      "front_matter_generation"}
    THEN currentStep
    ELSE githubStep

\* The step resumeGeneration hands to processBookGenerationFromStep and
\* reports: the analysis' step, whatever the ledger says.
resumeFrom(githubStep, currentStep) == githubStep

\* What resumeGeneration does to the ledger when the analysis disagrees with
\* the latest record: the later steps' records go and a synced record is added.
syncProgressHistory(l, step) ==
  LET currentStep == getCurrentProgressStep(l)
  IN  IF currentStep # NoRecord /\ currentStep.step # step /\ step # "completed"
        THEN startProgressStep(cleanupProgressHistoryAfterStep(l, step), step, TRUE)
        ELSE l

\* A resume that believes the analysis without reading the terminal artifact.
unverifiedComplete(step, readOk) == step = "completed"

\* The check of resumeGeneration on a "completed" analysis: the job is declared
\* completed only when front_matter.md was read.
verifiedComplete(step, readOk) ==
  step = "completed" /\ readOk /\ Present(files, frontMatter)

\* POST /api/books/:id/resume and resumeGeneration up to the launch of
\* processBookGenerationFromStep.  a is the outcome of the analysis, r of the
\* read of front_matter.md.
resumeGeneration ==
  /\ bookExists
  /\ routeAccepts(status)
  /\ pc = "idle"
  /\ lastResume.n < MaxResumes
  /\ \E a \in Outcomes, r \in Outcomes :
       LET githubState == analyzeRepositoryState(files)
           currentStep == getCurrentProgressStep(ledger)
           l1 == syncProgressHistory(ledger, githubState.step)
           n == lastResume.n + 1
       IN  IF ~repoStored \/ a = "throw" THEN
             /\ r = "ok"
             /\ status' = "generating"
             /\ faults' = IF repoStored THEN faults + 1 ELSE faults
             /\ lastResume' =
                  ResumeAnswer(n, "none", currentStep.step, "failed", TRUE, FALSE)
             /\ UNCHANGED << resumeLog, ledger, pc, mode, resumeStep, run, genCalls, writes,
                             idx, allPreviousSummaries >>
           ELSE IF verifiedComplete(githubState.step, r = "ok") THEN
             /\ status' = "completed"
             /\ ledger' = IF currentStep # NoRecord /\ currentStep.status # "completed"
                            THEN completeProgressStep(l1, currentStep.step)
                            ELSE l1
             /\ faults' = Fault(r)
             /\ lastResume' =
                  ResumeAnswer(n, githubState.step, currentStep.step, "completed",
                               r = "ok", l1 # ledger)
             /\ resumeLog' = resumeLog \cup {Logged(lastResume')}
             /\ UNCHANGED << pc, mode, resumeStep, run, genCalls, writes, idx,
                             allPreviousSummaries >>
           ELSE
             LET step == IF githubState.step = "completed"
                           THEN "front_matter_generation"
                           ELSE resumeFrom(githubState.step, currentStep.step)
             IN  /\ r = "throw" => githubState.step = "completed"
                 /\ faults' = Fault(r)
                 /\ status' = "generating"
                 /\ ledger' = l1
                 /\ pc' = entryOf(step)
                 /\ mode' = "resume"
                 /\ resumeStep' = step
                 /\ run' = run + 1
                 /\ genCalls' = NoCalls
                 /\ writes' = NoWrites
                 /\ idx' = 0
                 /\ allPreviousSummaries' = <<>>
                 /\ lastResume' =
                      ResumeAnswer(n, githubState.step, currentStep.step, step,
                                   r = "ok", l1 # ledger)
                 /\ resumeLog' = resumeLog \cup {Logged(lastResume')}
  /\ UNCHANGED << repoStored, files, dbSections >>
  /\ UNCHANGED << retryVars, taskVars, detailVars, tableVars, auxVars >>

\* POST /api/books/:id/resume on a job that is completed or generating: the
\* request is answered 400 and nothing is done.
resumeRejected ==
  /\ bookExists
  /\ ~routeAccepts(status)
  /\ lastResume.n < MaxResumes
  /\ lastResume' =
       ResumeAnswer(lastResume.n + 1, "none", getCurrentProgressStep(ledger).step,
                    "InvalidState", TRUE, FALSE)
  /\ UNCHANGED << status, ledger, repoStored, files, dbSections, pc, mode,
                  resumeStep, idx, allPreviousSummaries, run, faults, resumeLog,
                  genCalls, writes >>
  /\ UNCHANGED << retryVars, taskVars, detailVars, tableVars, auxVars >>

\* POST /api/books/:id/resume for an id no book has: the request is answered
\* 404 and nothing is done.
resumeNotFound ==
  /\ ~bookExists
  /\ lastResume.n < MaxResumes
  /\ lastResume' =
       ResumeAnswer(lastResume.n + 1, "none", getCurrentProgressStep(ledger).step,
                    "NotFound", TRUE, FALSE)
  /\ UNCHANGED << status, ledger, repoStored, files, dbSections, pc, mode,
                  resumeStep, idx, allPreviousSummaries, run, faults, resumeLog,
                  genCalls, writes >>
  /\ UNCHANGED << retryVars, taskVars, detailVars, tableVars, auxVars >>

\* What a pause request found: its answer, the number of log entries the
\* pause requests have written, the length of the ledger, the number of resume
\* requests so far, and whether a task was running.
PauseAnswer(answer, logs) ==
  [n |-> lastPause.n + 1, answer |-> answer, logs |-> logs,
   ledgerLen |-> Len(ledger), resumes |-> lastResume.n, running |-> pc # "idle"]

\* A pause that marks the job completed.
pausedAsCompleted == "completed"

\* The status the pause route sets.
pausedStatus == "failed"

\* POST /api/books/:id/pause: the status is reset so that the job can be
\* resumed and a log entry is written; a running task is not told.
pauseGeneration ==
  /\ bookExists
  /\ lastPause.n < MaxPauses
  /\ status' = pausedStatus
  /\ lastPause' = PauseAnswer("ok", lastPause.logs + 1)
  /\ UNCHANGED << ledger, repoStored, files, dbSections, pc, mode, resumeStep, idx,
                  allPreviousSummaries, run, faults, lastResume, resumeLog, genCalls, writes >>
  /\ UNCHANGED << retryVars, secondTask, detailVars, tableVars, auxVars >>

\* POST /api/books/:id/pause for an id no book has: the request is answered
\* 404 and nothing is done.
pauseNotFound ==
  /\ ~bookExists
  /\ lastPause.n < MaxPauses
  /\ lastPause' = PauseAnswer("NotFound", lastPause.logs)
  /\ UNCHANGED << pipelineVars, retryVars, secondTask, detailVars, tableVars, auxVars >>

\* A deletion that leaves the ledger rows behind.
keepProgressHistory(l) == l

\* deleteBook: the job's rows of book_progress_history.
deleteProgressHistory(l) == <<>>

\* DELETE /api/books/:id and DatabaseStorage.deleteBook: one transaction
\* removes the ledger, the section details, the sections and chapters, the
\* repository row and the book; when it fails nothing is removed.  The
\* repository's files stay, and a running task is not told.
deleteBook ==
  /\ bookExists
  /\ \E o \in Outcomes :
       /\ faults' = Fault(o)
       /\ IF o = "ok"
            THEN /\ status' = "deleted"
                 /\ ledger' = deleteProgressHistory(ledger)
                 /\ sectionDetails' = NoDetails
                 /\ dbSections' = {}
                 /\ repoStored' = FALSE
            ELSE UNCHANGED << status, ledger, sectionDetails, dbSections, repoStored >>
  /\ UNCHANGED << files, pc, mode, resumeStep, idx, allPreviousSummaries, run,
                  lastResume, resumeLog, genCalls, writes, lastNames >>
  /\ UNCHANGED << retryVars, taskVars, tableVars, auxVars >>

\* The task of a deleted job: its next insert (a ledger row, a log row, a
\* chapter) violates the foreign key to the book, its updates find no row, and
\* the exception ends it.
taskFindsNoBook ==
  /\ pc # "idle"
  /\ ~bookExists
  /\ pc' = "idle"
  /\ UNCHANGED << status, ledger, repoStored, files, dbSections, mode, resumeStep,
                  idx, allPreviousSummaries, run, faults, lastResume, resumeLog,
                  genCalls, writes >>
  /\ UNCHANGED << retryVars, taskVars, detailVars, tableVars, auxVars >>

\* The process dies while the task waits: the task is gone, the rows and the
\* files stay as they are.
processDies ==
  /\ pc # "idle"
  /\ faults < MaxFaults
  /\ faults' = faults + 1
  /\ pc' = "idle"
  /\ UNCHANGED << status, ledger, repoStored, files, dbSections, mode, resumeStep,
                  idx, allPreviousSummaries, run, lastResume, resumeLog, genCalls, writes >>
  /\ UNCHANGED << retryVars, taskVars, detailVars, tableVars, auxVars >>

Next ==
  \/ startGeneration
  \/ createRepositoryStep
  \/ bookOutlineStep
  \/ contentGenerationStart
  \/ sectionDraftStep
  \/ sectionSummaryStep
  \/ contentGenerationEnd
  \/ contentCompilationStep
  \/ frontMatterStep
  \/ resumeGeneration
  \/ resumeRejected
  \/ resumeNotFound
  \/ pauseGeneration
  \/ pauseNotFound
  \/ deleteBook
  \/ taskFindsNoBook
  \/ processDies

Spec == Init /\ [][Next]_vars

\* ------------------------------------------------- a process that stays up
\* One step of the job's task: the continuation of an await of
\* processBookGeneration or processBookGenerationFromStep.
TaskStep ==
  \/ createRepositoryStep
  \/ bookOutlineStep
  \/ contentGenerationStart
  \/ sectionDraftStep
  \/ sectionSummaryStep
  \/ contentGenerationEnd
  \/ contentCompilationStep
  \/ frontMatterStep
  \/ taskFindsNoBook

\* A request of a client.
Request ==
  \/ startGeneration
  \/ resumeGeneration
  \/ resumeRejected
  \/ resumeNotFound
  \/ pauseGeneration
  \/ pauseNotFound
  \/ deleteBook

NextLive == TaskStep \/ Request

\* The process does not die and every remote call returns, with a result or
\* an error: the event loop then runs the continuation of every await, so the
\* task's next step is taken.
SpecLive == Init /\ [][NextLive]_vars /\ WF_vars(TaskStep)

TypeOK ==
  /\ status \in {"none", "processing", "generating", "completed", "error", "failed",
                 "deleted"}
  /\ sectionDetails \in [Sections -> {NoFile} \cup (1 .. MaxResumes + 1)]
  /\ pc \in {"idle", "repo", "outline", "cg_start", "draft", "summary", "cg_end",
             "compile", "front"}
  /\ faults \in 0 .. MaxFaults
  /\ \A f \in FileNames : files[f] \in (0 - 1) .. (MaxResumes + 1)

\* ------------------------------------------------- requests during a run
\* POST /api/books/:id/resume and resumeGeneration while the job's task is
\* running: the route looks at the status only, so the call goes the same way
\* as resumeGeneration, and the task it launches runs beside the first one.
\* The job is followed up to the launch of a second task.
resumeWhileRunning ==
  /\ bookExists
  /\ routeAccepts(status)
  /\ pc # "idle"
  /\ secondTask = "idle"
  /\ lastResume.n < MaxResumes
  /\ \E a \in Outcomes, r \in Outcomes :
       LET githubState == analyzeRepositoryState(files)
           currentStep == getCurrentProgressStep(ledger)
           l1 == syncProgressHistory(ledger, githubState.step)
           n == lastResume.n + 1
       IN  IF ~repoStored \/ a = "throw" THEN
             /\ r = "ok"
             /\ status' = "generating"
             /\ faults' = IF repoStored THEN faults + 1 ELSE faults
             /\ lastResume' =
                  ResumeAnswer(n, "none", currentStep.step, "failed", TRUE, FALSE)
             /\ UNCHANGED << resumeLog, ledger, secondTask >>
           ELSE IF verifiedComplete(githubState.step, r = "ok") THEN
             /\ status' = "completed"
             /\ ledger' = IF currentStep # NoRecord /\ currentStep.status # "completed"
                            THEN completeProgressStep(l1, currentStep.step)
                            ELSE l1
             /\ faults' = Fault(r)
             /\ lastResume' =
                  ResumeAnswer(n, githubState.step, currentStep.step, "completed",
                               r = "ok", l1 # ledger)
             /\ resumeLog' = resumeLog \cup {Logged(lastResume')}
             /\ UNCHANGED secondTask
           ELSE
             LET step == IF githubState.step = "completed"
                           THEN "front_matter_generation"
                           ELSE resumeFrom(githubState.step, currentStep.step)
             IN  /\ r = "throw" => githubState.step = "completed"
                 /\ faults' = Fault(r)
                 /\ status' = "generating"
                 /\ ledger' = l1
                 /\ secondTask' = entryOf(step)
                 /\ lastResume' =
                      ResumeAnswer(n, githubState.step, currentStep.step, step,
                                   r = "ok", l1 # ledger)
                 /\ resumeLog' = resumeLog \cup {Logged(lastResume')}
  /\ UNCHANGED << repoStored, files, dbSections, pc, mode, resumeStep, idx,
                  allPreviousSummaries, run, genCalls, writes >>
  /\ UNCHANGED << retryVars, lastPause, detailVars, tableVars, auxVars >>

NextConcurrent ==
  \/ secondTask = "idle" /\ Next
  \/ resumeWhileRunning

SpecConcurrent == Init /\ [][NextConcurrent]_vars

\* ------------------------------------------- the ledger of several books
\* startProgressStep on the table: a row for one book and one step.
RECURSIVE rowCount(_, _)
rowCount(h, b) == IF b = 0 THEN 0 ELSE Len(h[b]) + rowCount(h, b - 1)

insertProgressRow ==
  /\ rowCount(history, BookCount) < MaxRows
  /\ \E b \in Books, k \in DOMAIN stepOrder :
       history' = [history EXCEPT ![b] = startProgressStep(@, stepOrder[k], TRUE)]
  /\ UNCHANGED << lastTruncate, pipelineVars, retryVars, taskVars, detailVars, auxVars >>

\* The steps cleanupProgressHistoryAfterStep may be called with.
TargetSteps ==
  {stepOrder[k] : k \in DOMAIN stepOrder} \cup {"completed", "unknown_step"}

\* db.transaction: the deletions are applied together or not at all.
transaction(before, after, committed) == IF committed THEN after ELSE before

\* cleanupProgressHistoryAfterStep(bookId, targetStep) on the table: the
\* deletions name the book and run in one transaction, which may fail.
truncateAfter ==
  /\ lastTruncate.n < MaxTruncates
  /\ \E b \in Books, t \in TargetSteps, committed \in BOOLEAN :
       /\ history' =
            [history EXCEPT
               ![b] = transaction(@, cleanupProgressHistoryAfterStep(@, t), committed)]
       /\ lastTruncate' =
            [n |-> lastTruncate.n + 1, bookId |-> b, targetStep |-> t,
             committed |-> committed,
             deleted |-> Len(history[b]) - Len(history'[b]),
             kept |-> Len(history'[b])]
  /\ UNCHANGED << pipelineVars, retryVars, taskVars, detailVars, auxVars >>

NextLedger ==
  \/ insertProgressRow
  \/ truncateAfter

SpecLedger == Init /\ [][NextLedger]_vars

\* ------------------------------------------------------ the retry wrappers
\* ClaudeService.generateContent and DeepSeekService.generateContent: one
\* call, attempt by attempt.  What the remote end may answer: a usable result,
\* an answer of an unexpected shape, an HTTP status, or a network error.
HttpErrors == {"429", "529", "503", "502", "500", "400", "401"}
NetworkErrors == {"ECONNRESET", "ETIMEDOUT"}
Answers == {"ok", "badFormat"} \cup HttpErrors \cup NetworkErrors

\* Math.random() * 1000, at both ends of its range.
Jitters == {0, 999}

RECURSIVE pow2(_)
pow2(k) == IF k = 0 THEN 1 ELSE 2 * pow2(k - 1)

\* A delay that does not grow with the attempts.
flatDelay(a, jitter) == baseDelay + jitter

\* baseDelay * Math.pow(2, attempt - 1) + Math.random() * 1000
backoffDelay(a, jitter) == baseDelay * pow2(a - 1) + jitter

\* isRetryableError of the Claude wrapper (error.status and error.code).
claudeRetryable(r) == r \in {"529", "503", "502", "500", "ECONNRESET", "ETIMEDOUT"}

\* isRetryableError of the DeepSeek wrapper (response.status of a non-ok answer).
deepseekRetryable(r) == r \in {"429", "503", "502", "500"}

\* attempt === maxRetries
lastAttempt(a) == a = maxRetries

\* The wrapper sleeps and goes round the loop; the loop ends, and the call
\* fails, when the loop variable passes maxRetries.
RetryAfter(jitter) ==
  /\ delays' = Append(delays, backoffDelay(attempt, jitter))
  /\ attempt' = attempt + 1
  /\ callState' = IF attempt + 1 <= maxRetries THEN "running" ELSE "failed"

GiveUp(st) ==
  /\ callState' = st
  /\ UNCHANGED << attempt, delays >>

generateContentCall ==
  /\ callState = "idle"
  /\ \E svc \in {"claude", "deepseek"} : service' = svc
  /\ attempt' = 1
  /\ callState' = "running"
  /\ UNCHANGED << responses, delays, pipelineVars, taskVars, detailVars, tableVars, auxVars >>

\* One pass of the loop of ClaudeService.generateContent: any error that is
\* not retryable, and any error on the last attempt, ends the call.
claudeAttempt ==
  /\ callState = "running"
  /\ service = "claude"
  /\ \E r \in Answers, jitter \in Jitters :
       /\ responses' = Append(responses, r)
       /\ IF r = "ok" THEN jitter = 0 /\ GiveUp("returned")
          ELSE IF lastAttempt(attempt) \/ ~claudeRetryable(r)
            THEN jitter = 0 /\ GiveUp("failed")
            ELSE RetryAfter(jitter)
  /\ UNCHANGED << service, pipelineVars, taskVars, detailVars, tableVars, auxVars >>

\* One pass of the loop of DeepSeekService.generateContent: a non-ok status
\* that is retryable is slept on inside the try block; every error thrown in
\* the try block (a status that is not retryable, an answer of the wrong
\* shape, a network error) reaches the catch block, which gives up on the last
\* attempt only.
deepseekAttempt ==
  /\ callState = "running"
  /\ service = "deepseek"
  /\ \E r \in Answers, jitter \in Jitters :
       /\ responses' = Append(responses, r)
       /\ IF r = "ok" THEN jitter = 0 /\ GiveUp("returned")
          ELSE IF r \in HttpErrors /\ ~(lastAttempt(attempt) \/ ~deepseekRetryable(r))
            THEN RetryAfter(jitter)
          ELSE IF lastAttempt(attempt)
            THEN jitter = 0 /\ GiveUp("failed")
            ELSE RetryAfter(jitter)
  /\ UNCHANGED << service, pipelineVars, taskVars, detailVars, tableVars, auxVars >>

\* GitHubService.getFile and GitHubService.createFile: one request to the
\* repository.  What the repository may answer besides Answers: 404.
GithubAnswers == Answers \cup {"404"}

githubCall ==
  /\ callState = "idle"
  /\ \E svc \in {"getFile", "createFile"} : service' = svc
  /\ attempt' = 1
  /\ callState' = "running"
  /\ UNCHANGED << responses, delays, pipelineVars, taskVars, detailVars, tableVars, auxVars >>

\* The request is made once: getFile returns the file, or null on 404, and
\* throws on every other error; createFile returns, or throws on every error
\* (the update of an existing file after a 422 is left out).  Nothing sleeps
\* and nothing is tried again.
githubAttempt ==
  /\ callState = "running"
  /\ service \in {"getFile", "createFile"}
  /\ \E r \in GithubAnswers :
       /\ responses' = Append(responses, r)
       /\ IF r = "ok" \/ (r = "404" /\ service = "getFile")
            THEN GiveUp("returned")
            ELSE GiveUp("failed")
  /\ UNCHANGED << service, pipelineVars, taskVars, detailVars, tableVars, auxVars >>

NextRetry ==
  \/ generateContentCall
  \/ claudeAttempt
  \/ deepseekAttempt
  \/ githubCall
  \/ githubAttempt

SpecRetry == Init /\ [][NextRetry]_vars

\* ------------------------------------------------- the repository's name
\* A title is a sequence of characters.  The alphabet has a lower-case and an
\* upper-case letter, a digit, the three special characters a name may hold,
\* a blank and a character no name may hold.
Letters == {"a", "B", "b", "7"}
SpecialChars == {".", "-", "_"}
Alphabet == Letters \cup SpecialChars \cup {" ", "!"}

toLowerCase(t) == [k \in DOMAIN t |-> IF t[k] = "B" THEN "b" ELSE t[k]]

\* replace(/[^a-z0-9.\-_]/g, '-')
replaceDisallowed(t) ==
  [k \in DOMAIN t |-> IF t[k] \in {"a", "b", "7"} \cup SpecialChars THEN t[k] ELSE "-"]

\* replace(/^[-._]+|[-._]+$/g, '')
RECURSIVE trimLeading(_)
trimLeading(t) ==
  IF t # <<>> /\ Head(t) \in SpecialChars THEN trimLeading(Tail(t)) ELSE t
RECURSIVE trimTrailing(_)
trimTrailing(t) ==
  IF t # <<>> /\ t[Len(t)] \in SpecialChars
    THEN trimTrailing(SubSeq(t, 1, Len(t) - 1))
    ELSE t
trimSpecial(t) == trimTrailing(trimLeading(t))

\* replace(/[-._]{2,}/g, '-'): a run of two or more special characters
\* becomes one dash, a single special character stays.
RECURSIVE runLength(_)
runLength(t) ==
  IF t # <<>> /\ Head(t) \in SpecialChars THEN 1 + runLength(Tail(t)) ELSE 0
RECURSIVE collapseSpecial(_)
collapseSpecial(t) ==
  IF t = <<>> THEN <<>>
  ELSE IF runLength(t) >= 2
    THEN <<"-">> \o collapseSpecial(SubSeq(t, runLength(t) + 1, Len(t)))
    ELSE <<Head(t)>> \o collapseSpecial(Tail(t))

maxNameLength == 37
timestampDigits == 13

\* baseName.length > maxNameLength ? baseName.substring(0, maxNameLength) : baseName
truncate(t) == IF Len(t) > maxNameLength THEN SubSeq(t, 1, maxNameLength) ELSE t

baseName(t) == collapseSpecial(trimSpecial(replaceDisallowed(toLowerCase(t))))

\* `${truncatedBaseName}-${ts}`
generateRepoName(t, ts) == truncate(baseName(t)) \o <<"-">> \o ts

\* The titles and timestamps the function is called with: a title is a head,
\* a run of one letter and a tail; a timestamp is thirteen digits.
MaxTitleLen == 40
Affixes ==
  { <<>>, <<" ">>, <<"B", "-", " ">>, <<"_", ".">>, <<"7", " ", "!">>, <<"a", ".", "b">> }
Titles ==
  { h \o [k \in 1 .. n |-> c] \o t :
      h \in Affixes, t \in Affixes, n \in 0 .. MaxTitleLen, c \in {"a", "B"} }
Timestamps == { [k \in 1 .. timestampDigits |-> d] : d \in {"1", "9"} }

\* A book is to get its repository: the title and Date.now() are at hand.
repositoryWanted ==
  /\ timestamp = <<>>
  /\ \E t \in Titles, ts \in Timestamps :
       /\ title' = t
       /\ timestamp' = ts
  /\ UNCHANGED repoName
  /\ UNCHANGED << pipelineVars, retryVars, taskVars, detailVars, tableVars, entryVars, mentionVars >>

\* GitHubService.generateRepoName(title, timestamp)
generateRepoNameCall ==
  /\ timestamp # <<>>
  /\ repoName = <<>>
  /\ repoName' = generateRepoName(title, timestamp)
  /\ UNCHANGED << title, timestamp >>
  /\ UNCHANGED << pipelineVars, retryVars, taskVars, detailVars, tableVars, entryVars, mentionVars >>

NextRepoName ==
  \/ repositoryWanted
  \/ generateRepoNameCall

SpecRepoName == Init /\ [][NextRepoName]_vars

\* ------------------------------------------- chapter and section entries
\* createChapterAndSectionEntries run by the tasks of one job.  Every await is
\* a step: the read of the chapters, createChapter, the read of the chapter's
\* sections, createSection.  The tables have no unique constraint on
\* (bookId, chapterNumber) or (chapterId, sectionNumber).

\* getBookChapters(bookId) and find(ch => ch.chapterNumber === i): the ids of
\* the rows find may return (the order of rows with equal numbers is open).
chaptersNumbered(rows, i) == {id \in DOMAIN rows : rows[id] = i}

\* getChapterSections(chapter.id) and find(s => s.sectionNumber === j)
sectionsNumbered(rows, chapter, j) == {id \in DOMAIN rows : rows[id] = <<chapter, j>>}

\* The loops' next position after section j of chapter i.
nextEntry(e) ==
  IF e.j < sectionsPerChapter THEN [e EXCEPT !.pc = "readSections", !.j = e.j + 1]
  ELSE IF e.i < chapterCount
    THEN [pc |-> "readChapters", i |-> e.i + 1, j |-> 0, chapter |-> 0]
    ELSE [pc |-> "done", i |-> 0, j |-> 0, chapter |-> 0]

\* A task reaches createChapterAndSectionEntries (from step 4 of a fresh run or
\* from continueFromContentGeneration).
entriesStart(t) ==
  /\ entryTask[t].pc = "none"
  /\ entryTask' =
       [entryTask EXCEPT ![t] = [pc |-> "readChapters", i |-> 1, j |-> 0, chapter |-> 0]]
  /\ UNCHANGED << chapterRows, sectionRows >>

\* const existingChapters = await storage.getBookChapters(bookId); find
readChapters(t) ==
  LET e == entryTask[t]
      found == chaptersNumbered(chapterRows, e.i)
  IN  /\ e.pc = "readChapters"
      /\ IF found # {}
           THEN \E id \in found :
                  entryTask' =
                    [entryTask EXCEPT ![t] = [e EXCEPT !.pc = "readSections",
                                                       !.j = 1, !.chapter = id]]
           ELSE entryTask' = [entryTask EXCEPT ![t] = [e EXCEPT !.pc = "createChapter"]]
      /\ UNCHANGED << chapterRows, sectionRows >>

\* chapter = await storage.createChapter(bookId, i, chapterTitle, "")
createChapter(t) ==
  LET e == entryTask[t]
  IN  /\ e.pc = "createChapter"
      /\ chapterRows' = Append(chapterRows, e.i)
      /\ entryTask' =
           [entryTask EXCEPT ![t] = [e EXCEPT !.pc = "readSections", !.j = 1,
                                              !.chapter = Len(chapterRows) + 1]]
      /\ UNCHANGED sectionRows

\* const existingSections = await storage.getChapterSections(chapter.id); find
readSections(t) ==
  LET e == entryTask[t]
  IN  /\ e.pc = "readSections"
      /\ entryTask' =
           [entryTask EXCEPT ![t] =
              IF sectionsNumbered(sectionRows, e.chapter, e.j) # {}
                THEN nextEntry(e)
                ELSE [e EXCEPT !.pc = "createSection"]]
      /\ UNCHANGED << chapterRows, sectionRows >>

\* await storage.createSection(chapter.id, j, sectionTitle, "")
createSection(t) ==
  LET e == entryTask[t]
  IN  /\ e.pc = "createSection"
      /\ sectionRows' = Append(sectionRows, <<e.chapter, e.j>>)
      /\ entryTask' = [entryTask EXCEPT ![t] = nextEntry(e)]
      /\ UNCHANGED chapterRows

NextEntries ==
  \E t \in Tasks :
    /\ \/ entriesStart(t)
       \/ readChapters(t)
       \/ createChapter(t)
       \/ readSections(t)
       \/ createSection(t)
    /\ UNCHANGED << pipelineVars, retryVars, taskVars, detailVars, tableVars, nameVars, mentionVars >>

SpecEntries == Init /\ [][NextEntries]_vars

\* ------------------------------------------- the rows of section_details
\* A value is a sequence of characters; null is a value of its own.  A detail
\* has the fields personName, businessName, cityName and jobRole (businessType
\* is handled like businessName and left out).
Null == <<"null">>
Blank == " "
Detail(p, b, c, r) == [personName |-> p, businessName |-> b, cityName |-> c, jobRole |-> r]

\* What the reasoner's answer may hold, parsed: names with and without blanks
\* around them, a field of blanks, empty fields, an object with no field at
\* all, and one with a business name only.
ParsedDetails ==
  { Detail(<<"A">>, <<>>, <<"R">>, <<"d">>),
    Detail(<<"A", Blank>>, <<>>, <<Blank>>, <<>>),
    Detail(<<"B">>, <<>>, <<>>, <<Blank, "d">>),
    Detail(<<>>, <<"T">>, <<>>, <<>>),
    Detail(<<>>, <<>>, <<>>, <<>>) }
Extractions ==
  {<<>>} \cup {<<d>> : d \in ParsedDetails}
         \cup {<<d, e>> : d \in ParsedDetails, e \in ParsedDetails}

\* chapters.bookId of the section's chapter.
bookOfSection(s) == ((s - 1) % BookCount) + 1

\* detail.personName || detail.businessName || ... : a non-empty string.
truthy(v) == v # Null /\ v # <<>>

\* extractedDetails.filter(detail => detail && typeof detail === 'object' && (...))
validDetail(d) ==
  truthy(d.personName) \/ truthy(d.businessName) \/ truthy(d.cityName) \/ truthy(d.jobRole)

\* insertData: detail.personName || null, ...
orNull(v) == IF truthy(v) THEN v ELSE Null
insertData(d) ==
  Detail(orNull(d.personName), orNull(d.businessName), orNull(d.cityName), orNull(d.jobRole))
insertRows(details) == [k \in DOMAIN details |-> insertData(details[k])]

\* String.prototype.trim
RECURSIVE trimStart(_)
trimStart(v) == IF v # <<>> /\ Head(v) = Blank THEN trimStart(Tail(v)) ELSE v
RECURSIVE trimEnd(_)
trimEnd(v) ==
  IF v # <<>> /\ v[Len(v)] = Blank THEN trimEnd(SubSeq(v, 1, Len(v) - 1)) ELSE v
trim(v) == trimEnd(trimStart(v))

\* [...new Set(list)]: the first occurrence of every value, in order.
RECURSIVE distinct(_)
distinct(list) ==
  IF list = <<>> THEN <<>>
  ELSE LET front == distinct(SubSeq(list, 1, Len(list) - 1))
           last == list[Len(list)]
       IN  IF \E k \in DOMAIN front : front[k] = last THEN front ELSE Append(front, last)

\* getBookSectionDetails(bookId) on the rows: the rows of the sections whose
\* chapter belongs to the book, ordered by chapter and section.
RECURSIVE rowsUpTo(_, _, _)
rowsUpTo(rows, bookId, s) ==
  IF s = 0 THEN <<>>
  ELSE rowsUpTo(rows, bookId, s - 1)
         \o (IF bookOfSection(s) = bookId THEN rows[s] ELSE <<>>)
getBookSectionDetailRows(rows, bookId) == rowsUpTo(rows, bookId, SectionCount)

\* A list that is made distinct before its values are trimmed.
trimAfterDistinct(allDetails, field) ==
  LET kept == SelectSeq(allDetails, LAMBDA d : truthy(d[field]) /\ truthy(trim(d[field])))
      values == distinct([k \in DOMAIN kept |-> kept[k][field]])
  IN  [k \in DOMAIN values |-> trim(values[k])]

\* [...new Set(allDetails.filter(d => d.f && d.f.trim()).map(d => d.f!.trim()))]
existingNames(allDetails, field) ==
  LET kept == SelectSeq(allDetails, LAMBDA d : truthy(d[field]) /\ truthy(trim(d[field])))
  IN  distinct([k \in DOMAIN kept |-> trim(kept[k][field])])

\* What may happen to one extraction: the reasoner's answer is parsed and the
\* rows are stored; the call throws; the answer is no JSON; the store throws
\* before or after its delete or between two inserts.
ExtractOutcomes == {"ok", "callThrows", "parseFails", "storeThrows"}

\* SectionDetailsExtractor.extractSectionDetails(sectionId, draftContent),
\* with storage.storeSectionDetails: the valid details of the answer replace
\* the section's rows and are returned; every error is caught and answered
\* with an empty list.
extractSectionDetails ==
  /\ lastExtract.n < MaxExtracts
  /\ \E s \in SectionIds, parsed \in Extractions, e \in ExtractOutcomes :
       LET extractedDetails == SelectSeq(parsed, validDetail)
           rows == insertRows(extractedDetails)
       IN  /\ CASE e = "ok" ->
                     mentions' = storeSectionDetails(mentions, s, rows)
                [] e = "storeThrows" ->
                     \/ UNCHANGED mentions
                     \/ \E k \in 0 .. Len(rows) - 1 :
                          mentions' = storeSectionDetails(mentions, s, SubSeq(rows, 1, k))
                [] OTHER -> UNCHANGED mentions
           /\ e # "ok" => parsed = <<>> \/ e = "storeThrows"
           /\ lastExtract' =
                [n |-> lastExtract.n + 1, sectionId |-> s, outcome |-> e,
                 returned |-> IF e = "ok" THEN extractedDetails ELSE <<>>,
                 before |-> mentions[s]]
  /\ UNCHANGED lastLists
  /\ UNCHANGED << pipelineVars, retryVars, taskVars, detailVars, tableVars, nameVars,
                  entryVars >>

\* SectionDetailsExtractor.getExistingNamesForAvoidance(bookId): the distinct
\* trimmed names of the book's rows; three empty lists when the read throws.
getExistingNamesCall ==
  /\ lastLists.n < MaxListReads
  /\ \E bookId \in Books, readOk \in BOOLEAN :
       LET allDetails == getBookSectionDetailRows(mentions, bookId)
       IN  lastLists' =
             IF readOk
               THEN [n |-> lastLists.n + 1, bookId |-> bookId, readOk |-> TRUE,
                     people |-> existingNames(allDetails, "personName"),
                     jobTitles |-> existingNames(allDetails, "jobRole"),
                     places |-> existingNames(allDetails, "cityName")]
               ELSE [n |-> lastLists.n + 1, bookId |-> bookId, readOk |-> FALSE,
                     people |-> <<>>, jobTitles |-> <<>>, places |-> <<>>]
  /\ UNCHANGED << mentions, lastExtract >>
  /\ UNCHANGED << pipelineVars, retryVars, taskVars, detailVars, tableVars, nameVars,
                  entryVars >>

NextMentions ==
  \/ extractSectionDetails
  \/ getExistingNamesCall

SpecMentions == Init /\ [][NextMentions]_vars

\* ================================================================== claims
\* A resume call that ran the analysis.
Analyzed == lastResume.trueStep # "none"

\* The step the specification calls the true step: the first step, in order,
\* whose required artifacts are not all in the store.
firstIncompleteStep(fs) ==
  IF ~Present(fs, mainOutline) THEN "book_outline"
  ELSE IF \E i \in Sections :
            ~Present(fs, draftFileName(i)) \/ ~Present(fs, summaryFileName(i))
    THEN "content_generation"
  ELSE IF ~Present(fs, contentDraft) THEN "content_compilation"
  ELSE IF ~Present(fs, frontMatter) THEN "front_matter_generation"
  ELSE "completed"

\* C1: the analysis returns the first step whose required artifacts are not
\* all present (the outline; all M drafts and M summaries; content_draft.md;
\* front_matter.md), and "completed" exactly when all are present.
C1_TrueStepIsFirstIncompleteStep ==
  Analyzed => lastResume.trueStep = firstIncompleteStep(lastResume.files)

\* C2: with the outline and n drafts, 0 < n < M, in the store, the analysis
\* returns content_generation, also when every draft has its summary.
C2_PartialFanOutIsContentGeneration ==
  ( /\ Analyzed
    /\ Present(lastResume.files, mainOutline)
    /\ sectionDrafts(lastResume.files) > 0
    /\ sectionDrafts(lastResume.files) < M )
  => lastResume.trueStep = "content_generation"

\* The place of a step in the fixed order, "completed" after the last step.
stepPosition(step) == IF step = "completed" THEN Len(stepOrder) + 1 ELSE indexOf(step)

\* A resume call has just found the analysis to differ from the latest record.
DriftFound ==
  /\ lastResume'.n = lastResume.n + 1
  /\ lastResume'.trueStep # "none"
  /\ lastResume'.trueStep # getCurrentProgressStep(ledger).step

\* Right after the call the ledger has no record of a later step, its latest
\* record is a synced "started" record of the true step, and the task has done
\* nothing yet.
LedgerRepaired ==
  /\ \A k \in DOMAIN ledger' :
       stepPosition(ledger'[k].step) <= stepPosition(lastResume'.trueStep)
  /\ getCurrentProgressStep(ledger') =
       ProgressRecord(lastResume'.trueStep, "started", TRUE)
  /\ genCalls' = NoCalls
  /\ writes' = NoWrites

\* C3 as stated: whenever resume finds the true step to differ from the
\* ledger's current step, it truncates the ledger after the true step and
\* inserts a synced "started" record of the true step before the task runs.
C3_RepairOnEveryDrift == [][DriftFound => LedgerRepaired]_vars

\* C3 amended: the same, for every true step other than "completed".
C3_RepairOnDriftUnlessCompleted ==
  [][(DriftFound /\ lastResume'.trueStep # "completed") => LedgerRepaired]_vars

\* C3 witness: a repair that removed records of later steps.
C3_Witness ==
  /\ lastResume.repaired
  /\ indexOf(lastResume.ledgerStep) > indexOf(lastResume.trueStep)
  /\ getCurrentProgressStep(ledger).synced
  /\ genCalls = NoCalls

\* A task launched by resume runs the step the last analysis led to.
AnalysisBeforeReentry ==
  (pc # "idle" /\ mode = "resume")
    => \E a \in resumeLog : a.resumedFromStep = resumeStep

\* C4 as stated: two resume calls that see the same files get the same true
\* step and report the same resumedFromStep, whatever the ledgers say.
C4_StepIsFunctionOfFiles ==
  /\ AnalysisBeforeReentry
  /\ \A a, b \in resumeLog :
       a.names = b.names
         => (a.trueStep = b.trueStep /\ a.resumedFromStep = b.resumedFromStep)

\* C4 amended: the true step is a function of the files; the reported step is
\* a function of the files and of whether the read of front_matter.md that
\* verifies a "completed" analysis succeeded; neither depends on the ledger.
C4_StepIsFunctionOfFilesAndRead ==
  /\ AnalysisBeforeReentry
  /\ \A a, b \in resumeLog :
       a.names = b.names
         => /\ a.trueStep = b.trueStep
            /\ a.readOk = b.readOk => a.resumedFromStep = b.resumedFromStep

\* C4 witness: two resume calls saw the same files under different ledgers.
C4_Witness ==
  \E a, b \in resumeLog :
    /\ a.names = b.names
    /\ a.ledgerStep # b.ledgerStep
    /\ a.resumedFromStep = "content_generation"

\* C5: resume declares the job completed only when front_matter.md was read;
\* when the analysis says "completed" and the read fails, the task is entered
\* at the front matter step and the job is not completed.
C5_CompletedOnlyWithFrontMatter ==
  [][ (lastResume'.n = lastResume.n + 1 /\ lastResume'.trueStep # "none")
      => /\ (status' = "completed" \/ lastResume'.resumedFromStep = "completed")
              => ( /\ lastResume'.readOk
                   /\ Present(files, frontMatter)
                   /\ status' = "completed"
                   /\ lastResume'.resumedFromStep = "completed"
                   /\ pc' = "idle" )
         /\ (lastResume'.trueStep = "completed" /\ ~lastResume'.readOk)
              => ( /\ lastResume'.resumedFromStep = "front_matter_generation"
                   /\ pc' = "front"
                   /\ status' # "completed" ) ]_vars

\* C5 witness: a "completed" analysis whose verifying read failed.
C5_Witness ==
  /\ lastResume.trueStep = "completed"
  /\ ~lastResume.readOk
  /\ pc = "front"

\* C6: during content generation no generation call is made for a draft or a
\* summary that is already in the store.
C6_NoCallForExistingArtifact ==
  \A k \in DOMAIN genCalls : ~genCalls[k].present

\* The steps a resumed task can be entered at.
EntrySteps ==
  {"book_outline", "content_generation", "content_compilation",
   "front_matter_generation"}

\* The last resume call was the second of two in a row: the call before it
\* launched a task on a partly done fan-out and that task ran to its end.
SecondResumeInARow ==
  /\ lastResume.n >= 2
  /\ lastResume.prevFrom \in EntrySteps
  /\ lastResume.prevPartial
  /\ lastResume.statusBefore \in {"completed", "error"}

prefixComplete(fs, n) ==
  /\ Present(fs, mainOutline)
  /\ ~Present(fs, contentDraft)
  /\ ~Present(fs, frontMatter)
  /\ \A i \in Sections :
       IF i <= n
         THEN HasContent(fs, draftFileName(i)) /\ HasContent(fs, summaryFileName(i))
         ELSE ~Present(fs, draftFileName(i)) /\ ~Present(fs, summaryFileName(i))

CompilationBegun == pc \in {"compile", "front"} \/ writes[contentDraft] > 0

\* C8: after a crash that left a prefix of the sub-units complete, resume
\* reports content_generation, and when compilation begins one draft and one
\* summary were written for each missing sub-unit and none for the others.
C8_ResumeFillsMissingSubUnits ==
  \A n \in 1 .. (M - 1) :
    (Analyzed /\ lastResume.resumedFromStep \in EntrySteps
       /\ prefixComplete(lastResume.files, n))
    => /\ lastResume.resumedFromStep = "content_generation"
       /\ CompilationBegun =>
            \A i \in Sections :
              /\ writes[draftFileName(i)] = IF i <= n THEN 0 ELSE 1
              /\ writes[summaryFileName(i)] = IF i <= n THEN 0 ELSE 1

\* The first draft generation call of the current run, 0 if there is none.
firstDraftCall ==
  IF \E k \in DOMAIN genCalls : genCalls[k].kind = "draft"
    THEN CHOOSE k \in DOMAIN genCalls :
           /\ genCalls[k].kind = "draft"
           /\ \A j \in 1 .. (k - 1) : genCalls[j].kind # "draft"
    ELSE 0

\* C9: after resume of a job with exactly n complete sub-units, the first new
\* generation call is for sub-unit n + 1 and is given the n summaries found
\* in the store, in order; it is made before the run leaves content generation.
C9_FirstCallGetsExistingSummaries ==
  \A n \in 1 .. (M - 1) :
    ( /\ Analyzed
      /\ lastResume.resumedFromStep \in EntrySteps
      /\ prefixComplete(lastResume.files, n)
      /\ mode = "resume"
      /\ pc \in {"cg_end", "compile", "front"} \/ (pc = "idle" /\ status = "completed") )
    => /\ firstDraftCall # 0
       /\ genCalls[firstDraftCall].sec = n + 1
       /\ genCalls[firstDraftCall].given =
            [i \in 1 .. n |-> <<i, lastResume.files[summaryFileName(i)]>>]

\* The errors the specification classes as retryable: rate limit, service
\* unavailable, bad gateway, internal server error, connection reset, timeout.
RetryableErrors == {"429", "503", "502", "500", "ECONNRESET", "ETIMEDOUT"}

OnlyRetryableErrors ==
  \A k \in DOMAIN responses : responses[k] \in RetryableErrors

\* C10: a call that meets a retryable error on every attempt makes exactly
\* maxRetries attempts and then fails; no call makes more than maxRetries
\* attempts.
C10_RetryExhaustion ==
  /\ Len(responses) <= maxRetries
  /\ (callState # "idle" /\ OnlyRetryableErrors) =>
       /\ Len(responses) < maxRetries => callState = "running"
       /\ Len(responses) = maxRetries => callState = "failed"

\* The errors the specification classes as not retryable: a malformed request
\* and an authorization failure.
FatalErrors == {"400", "401"}

\* C11: a call whose first attempt meets a non-retryable error fails at once:
\* one attempt, no delay, no further attempt, in either wrapper.
C11_FatalErrorFailsAtOnce ==
  (Len(responses) >= 1 /\ responses[1] \in FatalErrors)
    => /\ callState = "failed"
       /\ Len(responses) = 1
       /\ delays = <<>>

\* The task launched by startGeneration has just thrown: it was running, it
\* is gone, and the job is in error.
StartTaskThrew ==
  /\ mode = "start"
  /\ pc # "idle"
  /\ pc' = "idle"
  /\ status' = "error"

\* C12: when the continuation launched by start throws, the job's status
\* becomes "error" and the record that is open at that moment is failed.
C12_ThrowFailsOpenRecord ==
  [][StartTaskThrew =>
       /\ status' = "error"
       /\ getCurrentProgressStep(ledger').status = "failed"]_vars

\* A draft generation call was made for section i in the current run.
draftCalled(calls, i) ==
  \E k \in DOMAIN calls : calls[k].kind = "draft" /\ calls[k].sec = i

\* One pass of the section loop in which the generation of the draft (or its
\* write) threw: the call was made and no file was written.
DraftGenerationThrew ==
  /\ pc = "draft"
  /\ Len(genCalls') = Len(genCalls) + 1
  /\ genCalls'[Len(genCalls')].kind = "draft"
  /\ files' = files

\* C13: when the generation of one section's draft throws, the job's status and
\* the ledger stay as they are, the loop goes on with the next section, and
\* when the loop ends a draft was generated, or found, for every section.
C13_FailedSectionIsSkipped ==
  [][ /\ DraftGenerationThrew =>
           /\ status' = status
           /\ ledger' = ledger
           /\ idx' = idx + 1
           /\ pc' = IF idx < M THEN "draft" ELSE "cg_end"
      /\ pc' = "cg_end" =>
           \A i \in Sections :
             draftCalled(genCalls', i) \/ HasContent(files', draftFileName(i)) ]_vars

\* C13 witness: the loop has ended, the draft of one section failed and a
\* draft was generated for a later section.
C13_Witness ==
  /\ pc = "cg_end"
  /\ status # "error"
  /\ \E i, j \in Sections :
       /\ i < j
       /\ draftCalled(genCalls, i)
       /\ ~Present(files, draftFileName(i))
       /\ draftCalled(genCalls, j)
       /\ Present(files, draftFileName(j))

\* C14: whatever start, pause and resume requests arrive, at most one task of
\* the job is active at a time.
C14_AtMostOneTask == ~(pc # "idle" /\ secondTask # "idle")

\* C15: a resume request for a job that does not exist is answered NotFound,
\* one for a job that is completed or generating InvalidState; in both cases no
\* analysis is run and the job's status, ledger, rows, files and task are
\* left as they were.
C15_RefusedResumeChangesNothing ==
  [][ (lastResume'.n = lastResume.n + 1 /\ (~bookExists \/ status \in {"completed", "generating"}))
      => /\ lastResume'.resumedFromStep =
              IF ~bookExists THEN "NotFound" ELSE "InvalidState"
         /\ lastResume'.trueStep = "none"
         /\ UNCHANGED << status, ledger, repoStored, files, dbSections, pc, run,
                         resumeLog, genCalls, writes >> ]_vars

\* C15 witness: a request for an unknown job was answered NotFound and a later
\* one, for the job after it was completed, InvalidState.
C15_Witness ==
  /\ lastResume.prevFrom = "NotFound"
  /\ lastResume.resumedFromStep = "InvalidState"
  /\ lastResume.statusBefore = "completed"

\* A pause request reached the job while its task was running and no resume
\* request has come since.
PausedWhileRunning ==
  /\ lastPause.answer = "ok"
  /\ lastPause.running
  /\ lastResume.n = lastPause.resumes

\* C16: after a pause that reaches a running task, the task starts no step
\* beyond the one in flight (the ledger gets at most that step's record), and
\* the status is not set to "generating" or "completed" before a resume.
C16_PauseTakesEffectAtStepBoundary ==
  PausedWhileRunning =>
    /\ Len(ledger) <= lastPause.ledgerLen + 1
    /\ status \notin {"generating", "completed"}

\* C17: a pause request for an existing job sets the status to a resumable
\* state that is not "completed" and writes one log entry; it changes no
\* ledger record, no row, no file and not the running task; a request for an
\* unknown job is answered NotFound and changes nothing.
C17_PauseChangesStatusOnly ==
  [][ lastPause'.n = lastPause.n + 1 =>
        /\ UNCHANGED << ledger, repoStored, files, dbSections, pc, mode, resumeStep,
                        idx, allPreviousSummaries, run, genCalls, writes, secondTask >>
        /\ IF ~bookExists
             THEN /\ lastPause'.answer = "NotFound"
                  /\ lastPause'.logs = lastPause.logs
                  /\ status' = status
             ELSE /\ lastPause'.answer = "ok"
                  /\ lastPause'.logs = lastPause.logs + 1
                  /\ status' # "completed"
                  /\ routeAccepts(status') ]_vars

\* C17 witness: a request for an unknown job was refused and a later one
\* reached the job while its task was in the section loop.
C17_Witness ==
  /\ lastPause.n = 2
  /\ lastPause.logs = 1
  /\ lastPause.answer = "ok"
  /\ lastPause.running
  /\ pc = "summary"
  /\ status = "failed"

\* ------------------------------------------------------------------- C18
\* The rows the store holds for the job: ledger rows, sections (with their
\* chapters), section details and the repository row.
JobRows(l, secs, sd, repo) ==
  Len(l) + Cardinality(secs) + Cardinality({i \in Sections : sd[i] # NoFile})
    + (IF repo THEN 1 ELSE 0)

\* C18: after a deletion the store holds no book, ledger row, chapter,
\* section or section detail of the job, whatever its status was and whether
\* or not its task was running; the removal is all or nothing (sections,
\* section details and the repository row are never removed without the
\* book); and a resume request made afterwards is answered NotFound and
\* starts nothing.
C18_DeleteRemovesEverything ==
  [][ /\ status' = "deleted" =>
           JobRows(ledger', dbSections', sectionDetails', repoStored') = 0
      /\ status = "deleted" => status' = "deleted"
      /\ status' # "deleted" =>
           /\ dbSections \subseteq dbSections'
           /\ \A i \in Sections : sectionDetails[i] # NoFile => sectionDetails'[i] # NoFile
           /\ repoStored => repoStored'
      /\ (status = "deleted" /\ lastResume'.n = lastResume.n + 1) =>
           /\ lastResume'.resumedFromStep = "NotFound"
           /\ pc' = pc
           /\ secondTask' = secondTask ]_vars

\* A job whose task had written files and gone past its first section was
\* deleted, none of its rows is left, and a resume request made afterwards
\* was answered NotFound.
C18_Witness ==
  /\ status = "deleted"
  /\ lastResume.resumedFromStep = "NotFound"
  /\ lastResume.statusBefore = "deleted"
  /\ \E f \in DOMAIN files : HasContent(files, f)
  /\ JobRows(ledger, dbSections, sectionDetails, repoStored) = 0
  /\ idx > 1

\* ------------------------------------------------------------------- C20
NameKinds == {"people", "jobTitles", "places"}

\* C20: the lists of people, roles and places to avoid never shrink: each
\* result of getExistingNamesForAvoidance contains the one before it, hence
\* every earlier one.
C20_AvoidanceListsNeverShrink ==
  [][ \A k \in NameKinds : lastNames[k] \subseteq lastNames'[k] ]_vars

\* The same for the results that were read from the rows (not the empty
\* lists returned when the rows cannot be read).
C20_ListsReadFromRowsNeverShrink ==
  [][ (\E i \in Sections : sectionDetails[i] # NoFile) /\ lastNames' # NoNames =>
        \A k \in NameKinds : lastNames[k] \subseteq lastNames'[k] ]_vars

\* ------------------------------------------------------------------- C19
\* Step s comes strictly after step t in the fixed order of the steps.
StrictlyLater(s, t) ==
  \E i, j \in DOMAIN stepOrder : stepOrder[i] = t /\ stepOrder[j] = s /\ i < j

\* C19: a truncation of book b after step t deletes exactly b's records of
\* the steps strictly later than t, keeps b's other records as they were and
\* in their order, leaves the records of every other book unchanged, and when
\* its transaction fails it deletes nothing.
C19_TruncateAfterIsExactAndAtomic ==
  [][ lastTruncate'.n = lastTruncate.n + 1 =>
        LET b == lastTruncate'.bookId
            t == lastTruncate'.targetStep
        IN  /\ \A c \in Books \ {b} : history'[c] = history[c]
            /\ lastTruncate'.committed =>
                 history'[b] = SelectSeq(history[b], LAMBDA r : ~StrictlyLater(r.step, t))
            /\ ~lastTruncate'.committed => history'[b] = history[b] ]_vars

\* A committed truncation after book_outline deleted a record of a book and
\* kept its record of book_outline, while the other book's record of a later
\* step is still there, and nothing was inserted since.
C19_Witness ==
  /\ lastTruncate.n > 0
  /\ lastTruncate.committed
  /\ lastTruncate.targetStep = "book_outline"
  /\ lastTruncate.deleted > 0
  /\ LET b == lastTruncate.bookId
     IN  /\ Len(history[b]) = lastTruncate.kept
         /\ \E k \in DOMAIN history[b] : history[b][k].step = "book_outline"
         /\ \E c \in Books \ {b} :
              /\ \E k \in DOMAIN history[c] :
                   StrictlyLater(history[c][k].step, "book_outline")
              /\ rowCount(history, BookCount) + lastTruncate.deleted = MaxRows

\* ------------------------------------------------------------------- C21
\* The sections whose summaries a generation call was given, in the order
\* they were given.
givenSections(c) == [j \in DOMAIN c.given |-> c.given[j][1]]

\* The summaries the store holds for the sections before section k, in the
\* order of the sections.
earlierSummaries(fs, k) ==
  SelectSeq([j \in 1 .. (k - 1) |-> <<j, fs[summaryFileName(j)]>>],
            LAMBDA e : e[2] # NoFile)

\* A draft generation call has just been made.
DraftCallMade ==
  /\ Len(genCalls') = Len(genCalls) + 1
  /\ genCalls'[Len(genCalls')].kind = "draft"

\* C21: every draft generation call for the section at position k is given
\* the summaries of the sections 1 .. k-1 that the store holds, in the order
\* of the sections, none missing and none of a section at position k or later.
C21_CallGetsExactlyEarlierSummaries ==
  [][ DraftCallMade =>
        LET c == genCalls'[Len(genCalls')]
        IN  c.given = earlierSummaries(files, c.sec) ]_vars

\* The weaker statement that no call is given the summary of a section at
\* its own position or later.
C21_NoSummaryOfLaterSection ==
  \A n \in DOMAIN genCalls :
    genCalls[n].kind = "draft" =>
      \A j \in DOMAIN genCalls[n].given : givenSections(genCalls[n])[j] < genCalls[n].sec

\* ------------------------------------------------------------------- C22
\* The step the task is executing at each of its positions.
executingStep(p) ==
  CASE p = "repo" -> "github_repository"
    [] p = "outline" -> "book_outline"
    [] p \in {"cg_start", "draft", "summary", "cg_end"} -> "content_generation"
    [] p = "compile" -> "content_compilation"
    [] p = "front" -> "front_matter_generation"
    [] OTHER -> "none"

\* The task launched by a resume has just thrown.
ResumedTaskThrew ==
  /\ mode = "resume"
  /\ pc # "idle"
  /\ pc' = "idle"
  /\ status' = "error"

\* The records of a ledger that are not of step s.
recordsNotOf(l, s) == SelectSeq(l, LAMBDA r : r.step # s)

\* C22: when the task launched by a resume throws while executing step s, the
\* job's status becomes "error", the record of s that was open is failed, and
\* the records of the other steps are as they were.
C22_ThrowFailsExecutingStep ==
  [][ ResumedTaskThrew =>
        LET s == executingStep(pc)
        IN  /\ status' = "error"
            /\ getCurrentProgressStep(ledger').step = s
            /\ getCurrentProgressStep(ledger').status = "failed"
            /\ recordsNotOf(ledger', s) = recordsNotOf(ledger, s) ]_vars

\* ------------------------------------------------------------------- C23
\* Section i was skipped: its draft is not in the store although the draft of
\* a later section is.
skipped(fs, i) ==
  /\ ~Present(fs, draftFileName(i))
  /\ \E j \in Sections : j > i /\ Present(fs, draftFileName(j))

\* C23: a resume request for a job that is at rest with a skipped section is
\* answered with content_generation (and its task then generates the section).
C23_ResumeReentersFanOutForSkippedSection ==
  [][ ( /\ lastResume'.n = lastResume.n + 1
        /\ bookExists
        /\ pc = "idle"
        /\ repoStored
        /\ \E i \in Sections : skipped(files, i) )
      => ( /\ lastResume'.resumedFromStep \in {"content_generation", "failed"}
           /\ lastResume'.resumedFromStep = "content_generation" => pc' = "cg_start" ) ]_vars

\* ------------------------------------------------------------------- C24
\* The records of step s that are started and neither completed nor failed.
openRecords(l, s) == {k \in DOMAIN l : l[k].step = s /\ l[k].status = "started"}

\* C24: at most one record of each step is open at any time.
C24_AtMostOneOpenRecordPerStep ==
  \A k \in DOMAIN stepOrder : Cardinality(openRecords(ledger, stepOrder[k])) <= 1

\* ------------------------------------------------------------------- C25
\* No record was deleted in the step: the records that were there are still
\* at their places.
RecordsKept ==
  /\ Len(ledger') >= Len(ledger)
  /\ \A k \in DOMAIN ledger : ledger'[k].step = ledger[k].step

\* C25: a record that is completed or failed keeps its status, and a step of
\* the program adds records or closes the open record of one step.
C25_ClosedRecordsNeverChange ==
  [][ RecordsKept =>
        \A k \in DOMAIN ledger :
          ledger[k].status \in {"completed", "failed"} => ledger'[k] = ledger[k] ]_vars

\* ------------------------------------------------------------------- C26
GenerationServices == {"claude", "deepseek"}

\* C26: in both generation wrappers a call whose first attempt meets a rate
\* limit, service unavailable, bad gateway, internal server error, connection
\* reset or timeout is tried again, and returns when the second attempt
\* succeeds.
C26_TransientErrorIsRetried ==
  (service \in GenerationServices /\ Len(responses) >= 1 /\ responses[1] \in RetryableErrors)
    => /\ Len(responses) = 1 => callState = "running"
       /\ (Len(responses) = 2 /\ responses[2] = "ok") => callState = "returned"

\* ------------------------------------------------------------------- C27
ArtifactServices == {"getFile", "createFile"}

\* C27: a read or a write of the repository that meets a transient error is
\* tried again, after a delay, before it fails.
C27_ArtifactCallIsRetried ==
  (service \in ArtifactServices /\ Len(responses) = 1 /\ responses[1] \in RetryableErrors)
    => /\ callState = "running"
       /\ Len(delays) = 1

\* ------------------------------------------------------------------- C28
\* C28: the delay slept after attempt n is baseDelay * 2^(n-1) plus a jitter
\* in [0, 1000), baseDelay is at least 1000, and the delays of one call never
\* decrease, whatever the jitters.
C28_DelaysNonDecreasing ==
  /\ baseDelay >= 1000
  /\ \A n \in DOMAIN delays :
       /\ delays[n] >= baseDelay * pow2(n - 1)
       /\ delays[n] < baseDelay * pow2(n - 1) + 1000
       /\ n > 1 => delays[n - 1] <= delays[n]

\* The largest jitter after the first attempt and the smallest after the second.
C28_Witness ==
  /\ Len(delays) = 2
  /\ delays[1] = baseDelay + 999
  /\ delays[2] = 2 * baseDelay
  /\ callState = "failed"

\* ------------------------------------------------------------------- C29
\* The steps the pipeline runs, in its order (chapter_outlines is never run).
pipelineOrder ==
  << "input_validation", "database_storage", "github_repository", "book_outline",
     "content_generation", "content_compilation", "front_matter_generation" >>

placeOf(step) == CHOOSE n \in DOMAIN pipelineOrder : pipelineOrder[n] = step

\* Record k of the ledger after a step was written by the task (not by the
\* repair of a resume) for a step whose predecessor had a completed record
\* when it was written.
startedInOrder(k) ==
  \/ ledger'[k].synced
  \/ placeOf(ledger'[k].step) = 1
  \/ \E j \in 1 .. (k - 1) :
       /\ ledger'[j].step = pipelineOrder[placeOf(ledger'[k].step) - 1]
       /\ \/ ledger'[j].status = "completed"
          \/ j <= Len(ledger) /\ ledger[j].status = "completed"

\* The job has just become completed.
BecomesCompleted == status # "completed" /\ status' = "completed"

frontMatterCompleted(l) ==
  \E k \in DOMAIN l : l[k].step = "front_matter_generation" /\ l[k].status = "completed"

\* C29: every record the task starts is of a step whose predecessor in the
\* pipeline has a completed record, and the job becomes completed only when
\* the front matter step has a completed record.
C29_StepsRunInOrder ==
  [][ /\ \A k \in DOMAIN ledger' : k > Len(ledger) => startedInOrder(k)
      /\ BecomesCompleted => frontMatterCompleted(ledger') ]_vars

\* C29 for the task launched by start only.
C29_FreshRunStepsInOrder ==
  [][ mode' = "start" =>
        /\ \A k \in DOMAIN ledger' : k > Len(ledger) => startedInOrder(k)
        /\ BecomesCompleted => frontMatterCompleted(ledger') ]_vars

\* ------------------------------------------------------------------- C30
\* The values of the job's status the specification names.
LifecycleStatuses == {"created", "processing", "generating", "completed", "error", "paused"}

\* C30: the status of a job that exists is always one of created, processing,
\* generating, completed, error, paused.
C30_StatusInLifecycleSet == bookExists => status \in LifecycleStatuses

\* ------------------------------------------------------------------- C34
\* The summaries lag behind the drafts: the analysis reaches its third test
\* and passes it.
summariesLag(fs) ==
  /\ Present(fs, mainOutline)
  /\ sectionDrafts(fs) > 0
  /\ sectionSummaries(fs) < sectionDrafts(fs)

\* The first section, in ordinal order, whose draft is in the store and whose
\* summary is not (0 when there is none).
firstMissingSummary(fs) ==
  LET missing == {i \in Sections : /\ Present(fs, draftFileName(i))
                                   /\ ~Present(fs, summaryFileName(i))}
  IN  IF missing = {} THEN 0 ELSE CHOOSE i \in missing : \A j \in missing : i <= j

\* C34: a non-empty nextFile of the analysis names a file that is not in the
\* store, and, when the summaries lag behind the drafts, the summary of the
\* first section whose draft is there and whose summary is missing.
C34_NextFileIsNextArtifact ==
  Analyzed =>
    LET fs == lastResume.files
        next == analyzeRepositoryState(fs).nextFile
    IN  next[1] # "" =>
          /\ next \in FileNames
          /\ ~Present(fs, next)
          /\ summariesLag(fs) =>
               /\ firstMissingSummary(fs) # 0
               /\ next = summaryFileName(firstMissingSummary(fs))

\* ------------------------------------------------------------------- C35
\* Every artifact of the job is in the store.
allArtifacts(fs) ==
  /\ Present(fs, mainOutline)
  /\ \A i \in Sections : Present(fs, draftFileName(i)) /\ Present(fs, summaryFileName(i))
  /\ Present(fs, contentDraft)
  /\ Present(fs, frontMatter)

\* C35: a job whose status is completed has the outline, the draft and the
\* summary of every section, content_draft.md and front_matter.md in the store.
C35_CompletedHasAllArtifacts == status = "completed" => allArtifacts(files)

\* ------------------------------------------------------------------- C36
\* A resume request that was accepted by the route and failed before the task
\* was launched: the job has no repository row, or the analysis threw.
ResumeFailedBeforeReentry ==
  /\ lastResume'.n = lastResume.n + 1
  /\ lastResume'.resumedFromStep = "failed"

\* C36: a resume that fails before the task is launched does not leave the
\* status generating (no task is in flight then), so that a later resume is
\* not refused as already in progress.
C36_FailedResumeDoesNotLeaveGenerating ==
  [][ ResumeFailedBeforeReentry => (status' # "generating" /\ routeAccepts(status')) ]_vars

\* ------------------------------------------------------------------- C37
\* C37: the summary of a section is in the store only if its draft is, so
\* there are never more summaries than drafts.
C37_SummaryOnlyWithDraft ==
  /\ \A i \in Sections :
       Present(files, summaryFileName(i)) => Present(files, draftFileName(i))
  /\ sectionSummaries(files) <= sectionDrafts(files)

\* A resumed run wrote the summary of a draft an earlier run had written,
\* while the draft of an earlier section is missing and has no summary.
C37_Witness ==
  /\ run > 1
  /\ \E i \in Sections :
       /\ files[summaryFileName(i)] = run
       /\ HasContent(files, draftFileName(i))
       /\ files[draftFileName(i)] < run
  /\ \E j \in Sections :
       ~Present(files, draftFileName(j)) /\ ~Present(files, summaryFileName(j))

\* ------------------------------------------------------------------- C39
\* cleanupProgressHistoryAfterStep takes the step: it returns at once for
\* "completed" and throws `Unknown step` for a step that is not in stepOrder.
cleanupAccepts(step) == step = "completed" \/ indexOf(step) # 0

\* A resume request that ran the analysis.
ResumeAnalyzed ==
  /\ lastResume'.n = lastResume.n + 1
  /\ lastResume'.trueStep # "none"

\* C39: the step the analysis returns is taken by the truncation, and the step
\* the task is entered with is a case of the dispatch ("completed" is dealt
\* with before the dispatch): no resume ends in `Unknown step`.
C39_AnalysisStepIsAccepted ==
  [][ ResumeAnalyzed =>
        /\ cleanupAccepts(lastResume'.trueStep)
        /\ \/ lastResume'.resumedFromStep = "completed" /\ pc' = pc
           \/ /\ dispatchAccepts(lastResume'.resumedFromStep)
              /\ pc' = entryOf(lastResume'.resumedFromStep)
              /\ pc' # "unknown" ]_vars

\* A resume found the job complete but for front_matter.md and entered the
\* task at the last case of the dispatch.
C39_Witness ==
  /\ Analyzed
  /\ lastResume.trueStep = "front_matter_generation"
  /\ lastResume.resumedFromStep = "front_matter_generation"
  /\ pc = "front"

\* ------------------------------------------------------------------- C38
\* The task ends: its last step was taken.
TaskEnds == pc # "idle" /\ pc' = "idle"

\* C38: when the process stays up and every remote call returns, a run that
\* was launched ends, and at its end the status of the job (if the job still
\* exists) is completed or error.
C38_RunTerminates ==
  /\ (pc # "idle") ~> (pc = "idle")
  /\ [][ (TaskEnds /\ bookExists') => status' \in {"completed", "error"} ]_vars

\* A resumed run ended in an error and an earlier or later one was not paused.
C38_Witness ==
  /\ pc = "idle"
  /\ run > 1
  /\ mode = "resume"
  /\ status = "error"
  /\ lastPause.n = 0

\* ------------------------------------------------------------------- C40
\* The name is a base of at most maxNameLength characters, a dash and the
\* thirteen digits of the timestamp.
nameIsBaseDashTimestamp ==
  LET base == SubSeq(repoName, 1, Len(repoName) - timestampDigits - 1)
  IN  /\ Len(repoName) >= timestampDigits + 1
      /\ Len(base) <= maxNameLength
      /\ base = truncate(baseName(title))
      /\ repoName[Len(base) + 1] = "-"
      /\ SubSeq(repoName, Len(base) + 2, Len(repoName)) = timestamp

\* C40: for every title and every 13-digit timestamp the name generateRepoName
\* returns has at most 50 characters, and is the sanitized title cut to 37
\* characters, a dash and the timestamp.
C40_RepoNameAtMostFifty ==
  repoName # <<>> => (Len(repoName) <= 50 /\ nameIsBaseDashTimestamp)

\* The parts of the name are as described, whatever its length.
C40_NameIsBaseDashTimestamp == repoName # <<>> => nameIsBaseDashTimestamp

\* ------------------------------------------------------------------- C31
\* C31: there is at most one chapter row for each chapter number of the job
\* and at most one section row for each section number of a chapter row.
C31_NoDuplicateEntries ==
  /\ \A a, b \in DOMAIN chapterRows : chapterRows[a] = chapterRows[b] => a = b
  /\ \A a, b \in DOMAIN sectionRows : sectionRows[a] = sectionRows[b] => a = b

\* While one task only has entered createChapterAndSectionEntries, no row is
\* there twice.
C31_SingleTaskCreatesOnce ==
  (\E t \in Tasks : \A u \in Tasks \ {t} : entryTask[u].pc = "none")
    => C31_NoDuplicateEntries

\* ------------------------------------------------------------------- C32
\* The rows are the details, one row for each detail and in their order: a
\* field that has a value holds it, every other field is null.
DetailFields == {"personName", "businessName", "cityName", "jobRole"}
sameMentions(rows, details) ==
  /\ Len(rows) = Len(details)
  /\ \A k \in DOMAIN rows : \A f \in DetailFields :
       rows[k][f] = IF details[k][f] # <<>> THEN details[k][f] ELSE Null

\* A call of extractSectionDetails returned.
ExtractReturned == lastExtract'.n = lastExtract.n + 1

recordedValues(rows, bookId, field) ==
  UNION { {trim(rows[s][k][field]) : k \in {j \in DOMAIN rows[s] : rows[s][j][field] # Null}} :
            s \in {u \in SectionIds : bookOfSection(u) = bookId} } \ {<<>>}

noValueTwice(list) == \A a, b \in DOMAIN list : list[a] = list[b] => a = b
valuesOf(list) == {list[k] : k \in DOMAIN list}

\* The three lists and the field each is made of.
ListFields ==
  {<<"people", "personName">>, <<"jobTitles", "jobRole">>, <<"places", "cityName">>}

\* A call of getExistingNamesForAvoidance returned.
NamesReturned == lastLists'.n = lastLists.n + 1

====
